---- MODULE Spec2Model ----
(***************************************************************************)
(* Model of src/main.py: position-specific weight matrices over aligned    *)
(* DNA sequences (ListSample, HMMSample, weigh_matrix,                     *)
(* relative_individual_information).                                       *)
(*                                                                         *)
(* Conventions                                                             *)
(*  - A Python str is a sequence of one-letter strings; Python index p is  *)
(*    TLA+ index p + 1.                                                    *)
(*  - A Python float is an exact rational <<num, den>> in lowest terms     *)
(*    with den > 0 (arithmetic taken as exact).                            *)
(*  - The real number math.log2(q) is represented by its argument q, so    *)
(*    the float 0 is <<1, 1>>, and a sum of logarithms is the product of   *)
(*    their arguments (log2 is injective on the positive rationals).       *)
(*  - A Python exception is an outcome [ok |-> FALSE, err |-> kind].       *)
(*  - The row dicts of a nucleotide table are objects of a heap, so that   *)
(*    two tables sharing a row can be told from two equal tables.          *)
(***************************************************************************)
EXTENDS Integers, Sequences, FiniteSets, TLC

VARIABLES sample, origin, DEFAULT_BACKGROUND, heap, held, pc, result

vars == <<sample, origin, DEFAULT_BACKGROUND, heap, held, pc, result>>

\* ------------------------------------------------------------------ bounds
MaxSeqs == 2
MaxLen == 2
MaxStart == 1
MaxPairs == 1

\* ------------------------------------------------------------ exact floats
RECURSIVE GCD(_, _)
GCD(a, b) == IF b = 0 THEN a ELSE GCD(b, a % b)

Abs(x) == IF x < 0 THEN -x ELSE x

Rat(n, d) ==
    LET g == GCD(Abs(n), Abs(d))
        s == IF d < 0 THEN -1 ELSE 1
    IN  <<(s * n) \div g, (s * d) \div g>>

Int2Rat(n) == <<n, 1>>

RAdd(a, b) == Rat(a[1] * b[2] + b[1] * a[2], a[2] * b[2])

RMul(a, b) == Rat(a[1] * b[1], a[2] * b[2])

\* a / b for b # 0 (the caller raises ZeroDivisionError when b = 0)
RDiv(a, b) == Rat(a[1] * b[2], a[2] * b[1])

RZero == Int2Rat(0)

\* ------------------------------------------------------------- nucleotides
\* the key order of the dict literal {"A": 0, "G": 0, "T": 0, "C": 0}
NucleotideOrder == <<"A", "G", "T", "C">>

Nucleotides == {NucleotideOrder[k] : k \in DOMAIN NucleotideOrder}

BlankRow == [n \in Nucleotides |-> RZero]

Uniform == [n \in Nucleotides |-> Rat(1, 4)]

Skewed == [n \in Nucleotides |->
             IF n = "A" THEN Rat(1, 2)
             ELSE IF n = "G" THEN Rat(1, 4) ELSE Rat(1, 8)]

\* ------------------------------------------------------------------ errors
Ok(h, v) == [ok |-> TRUE, err |-> "", heap |-> h, ret |-> v]

Raise(h, kind) == [ok |-> FALSE, err |-> kind, heap |-> h, ret |-> <<>>]

\* -------------------------------------------------------------------- heap
\* the smallest identity not in use
NewId(h) == CHOOSE id \in 1..(Cardinality(DOMAIN h) + 1) :
                id \notin DOMAIN h /\ \A j \in 1..(id - 1) : j \in DOMAIN h

EmptyHeap == [id \in {} |-> BlankRow]

\* the value of a table: the row dict found behind every position
TableValue(h, table) == [i \in DOMAIN table |-> h[table[i]]]

\* --------------------------------------------------- blank_nucleotide_table
RECURSIVE BlankLoop(_, _, _, _)
BlankLoop(h, nucleotide_table, k, len) ==
    IF k >= len THEN [heap |-> h, ret |-> nucleotide_table]
    ELSE LET id == NewId(h)
         IN  BlankLoop(h @@ (id :> BlankRow), Append(nucleotide_table, id),
                       k + 1, len)

\* faulty variant: [{"A": 0, "G": 0, "T": 0, "C": 0}] * len, one row at every position
blank_nucleotide_table_shared(h, len) ==
    IF len <= 0 THEN [heap |-> h, ret |-> <<>>]
    ELSE LET id == NewId(h)
         IN  [heap |-> h @@ (id :> BlankRow), ret |-> [i \in 1..len |-> id]]

\* faulty variant: the table is built once and handed out again by later calls
blank_nucleotide_table_cached(h, len) ==
    IF len > 0 /\ \A id \in 1..len : id \in DOMAIN h
    THEN [heap |-> h, ret |-> [i \in 1..len |-> i]]
    ELSE BlankLoop(h, <<>>, 0, len)

blank_nucleotide_table(h, len) == BlankLoop(h, <<>>, 0, len)

\* ------------------------------------------------------------------ Sample
Object(kind, sequences, hmm, size, start, end) ==
    [kind |-> kind, _sequences |-> sequences, _hmm |-> hmm,
     _sample_size |-> size, _start |-> start, _end |-> end]

EmptyHmm == [i \in {} |-> [entry |-> <<>>, next |-> -1]]

\* len(hmm) of a dict
DictLen(hmm) == Cardinality(DOMAIN hmm)

\* ListSample.__init__ (sequences holds at least one sequence)
ListSample(sequences, start, end) ==
    Object("list", sequences, EmptyHmm, 0, start,
           IF end = -1 THEN Len(sequences[1]) ELSE end)

\* HMMSample.__init__
HMMSample(hmm, size, start, end) ==
    Object("hmm", <<>>, hmm, size, start,
           IF end = -1 THEN DictLen(hmm) ELSE end)

sample_size(self) ==
    IF self.kind = "list" THEN Len(self._sequences) ELSE self._sample_size

seq_len(self) == self._end - self._start

\* ------------------------------------------ ListSample.nucleotide_counts
\* for i in range(i, self.seq_len()): counts[i][seq[i + self._start]] += 1
RECURSIVE CountPositions(_, _, _, _, _)
CountPositions(h, counts, self, seq, i) ==
    IF i >= seq_len(self) THEN Ok(h, counts)
    ELSE IF i + self._start >= Len(seq) THEN Raise(h, "IndexError")
    ELSE LET n == seq[i + self._start + 1]
             row == counts[i + 1]
         IN  IF n \notin DOMAIN h[row] THEN Raise(h, "KeyError")
             ELSE CountPositions(
                      [h EXCEPT ![row][n] = RAdd(@, Int2Rat(1))],
                      counts, self, seq, i + 1)

\* for seq in self._sequences, from the k-th on
RECURSIVE CountSequences(_, _, _, _)
CountSequences(h, counts, self, k) ==
    IF k > Len(self._sequences) THEN Ok(h, counts)
    ELSE LET r == CountPositions(h, counts, self, self._sequences[k], 0)
         IN  IF r.ok THEN CountSequences(r.heap, counts, self, k + 1) ELSE r

ListSample_nucleotide_counts(h, self) ==
    LET b == blank_nucleotide_table(h, seq_len(self))
    IN  CountSequences(b.heap, b.ret, self, 1)

\* -------------------------------------------- HMMSample.nucleotide_counts
\* for nucleotide, probability in entry, from the k-th pair on
RECURSIVE SetPairs(_, _, _, _, _)
SetPairs(h, row, entry, size, k) ==
    IF k > Len(entry) THEN h
    ELSE LET nucleotide == entry[k][1]
             probability == entry[k][2]
             value == RMul(probability, Int2Rat(size))
         IN  SetPairs(
                 [h EXCEPT ![row] =
                     IF nucleotide \in DOMAIN @
                     THEN [@ EXCEPT ![nucleotide] = value]
                     ELSE @ @@ (nucleotide :> value)],
                 row, entry, size, k + 1)

\* faulty variant: self._hmm[i] read instead of self._hmm[i + self._start]
RECURSIVE HmmPositionsFromZero(_, _, _, _)
HmmPositionsFromZero(h, counts, self, i) ==
    IF i >= seq_len(self) THEN Ok(h, counts)
    ELSE IF i \notin DOMAIN self._hmm THEN Raise(h, "KeyError")
    ELSE HmmPositionsFromZero(
             SetPairs(h, counts[i + 1], self._hmm[i].entry,
                      self._sample_size, 1),
             counts, self, i + 1)

RECURSIVE HmmPositions(_, _, _, _)
HmmPositions(h, counts, self, i) ==
    IF i >= seq_len(self) THEN Ok(h, counts)
    ELSE IF (i + self._start) \notin DOMAIN self._hmm THEN Raise(h, "KeyError")
    ELSE HmmPositions(
             SetPairs(h, counts[i + 1], self._hmm[i + self._start].entry,
                      self._sample_size, 1),
             counts, self, i + 1)

HMMSample_nucleotide_counts(h, self) ==
    LET b == blank_nucleotide_table(h, seq_len(self))
    IN  HmmPositions(b.heap, b.ret, self, 0)

\* sample.nucleotide_counts() of either class
nucleotide_counts(h, self) ==
    IF self.kind = "list" THEN ListSample_nucleotide_counts(h, self)
    ELSE HMMSample_nucleotide_counts(h, self)

\* ------------------------------------------------------- ListSample.to_hmm
\* faulty variant: a pair only for the symbols of nonzero count
RECURSIVE EntryLoopObserved(_, _, _, _)
EntryLoopObserved(row, size, entry, k) ==
    IF k > Len(NucleotideOrder) THEN entry
    ELSE LET n == NucleotideOrder[k]
         IN  EntryLoopObserved(
                 row, size,
                 IF row[n] = RZero THEN entry
                 ELSE Append(entry, <<n, RDiv(row[n], Int2Rat(size))>>),
                 k + 1)

\* for n in counts[i]: entry += [(n, counts[i][n] / sample_size)]
RECURSIVE EntryLoop(_, _, _, _)
EntryLoop(row, size, entry, k) ==
    IF k > Len(NucleotideOrder) THEN entry
    ELSE LET n == NucleotideOrder[k]
         IN  EntryLoop(row, size,
                       Append(entry, <<n, RDiv(row[n], Int2Rat(size))>>),
                       k + 1)

RECURSIVE HmmLoop(_, _, _, _, _)
HmmLoop(h, counts, self, hmm, i) ==
    IF i >= seq_len(self) THEN Ok(h, hmm)
    ELSE IF sample_size(self) = 0 THEN Raise(h, "ZeroDivisionError")
    ELSE LET entry == EntryLoop(h[counts[i + 1]], sample_size(self), <<>>, 1)
             next_index == IF i # seq_len(self) - 1 THEN i + 1 ELSE -1
         IN  HmmLoop(h, counts, self,
                     hmm @@ (i :> [entry |-> entry, next |-> next_index]),
                     i + 1)

to_hmm(h, self) ==
    LET c == nucleotide_counts(h, self)
    IN  IF ~c.ok THEN c ELSE HmmLoop(c.heap, c.ret, self, EmptyHmm, 0)

\* faulty variant: HMMSample(self.to_hmm(), self.seq_len())
to_hmm_sample_seq_len(h, self) ==
    LET m == to_hmm(h, self)
    IN  IF ~m.ok THEN m
        ELSE Ok(m.heap, HMMSample(m.ret, seq_len(self), 0, -1))

\* ListSample.to_hmm_sample
to_hmm_sample(h, self) ==
    LET m == to_hmm(h, self)
    IN  IF ~m.ok THEN m
        ELSE Ok(m.heap, HMMSample(m.ret, sample_size(self), 0, -1))

\* ------------------------------------------------------------ weigh_matrix
\* math.log2((counts[i][n] + background[n]) / (sample_size + 1) / background[n])
\* as an outcome; the value is the argument of the logarithm
Score(count, size, bg) ==
    IF size + 1 = 0 \/ bg[1] = 0
    THEN [ok |-> FALSE, err |-> "ZeroDivisionError", val |-> RZero]
    ELSE LET x == RDiv(RDiv(RAdd(count, bg), Int2Rat(size + 1)), bg)
         IN  IF x[1] <= 0 THEN [ok |-> FALSE, err |-> "ValueError", val |-> RZero]
             ELSE [ok |-> TRUE, err |-> "", val |-> x]

\* for n in ['A', "G", "T", "C"]: result[i][n] = ...
RowScores(row, size, background) ==
    [n \in Nucleotides |-> Score(row[n], size, background[n])]

\* the exception of the first symbol, in loop order, whose score raises
FirstError(scores) ==
    LET k == CHOOSE k \in DOMAIN NucleotideOrder :
                 /\ ~scores[NucleotideOrder[k]].ok
                 /\ \A j \in 1..(k - 1) : scores[NucleotideOrder[j]].ok
    IN  scores[NucleotideOrder[k]].err

\* for i in range(i, sample.seq_len())
RECURSIVE MatrixLoop(_, _, _, _, _, _)
MatrixLoop(h, counts, self, background, wm, i) ==
    IF i >= seq_len(self) THEN Ok(h, wm)
    ELSE LET scores == RowScores(h[counts[i + 1]], sample_size(self), background)
         IN  IF \E n \in Nucleotides : ~scores[n].ok
             THEN Raise(h, FirstError(scores))
             ELSE MatrixLoop(h, counts, self, background,
                             Append(wm, [n \in Nucleotides |-> scores[n].val]),
                             i + 1)

weigh_matrix(h, self, background) ==
    LET c == nucleotide_counts(h, self)
    IN  IF ~c.ok THEN c ELSE MatrixLoop(c.heap, c.ret, self, background, <<>>, 0)

\* ----------------------------------------- relative_individual_information
\* faulty variant: result = wm[i][target[i]], the sum not carried along
RECURSIVE ScoreLoopAssign(_, _, _, _, _)
ScoreLoopAssign(h, wm, target, acc, i) ==
    IF i >= Len(target) THEN Ok(h, acc)
    ELSE IF i >= Len(wm) THEN Raise(h, "IndexError")
    ELSE IF target[i + 1] \notin DOMAIN wm[i + 1] THEN Raise(h, "KeyError")
    ELSE ScoreLoopAssign(h, wm, target, wm[i + 1][target[i + 1]], i + 1)

\* for i in range(i, len(target)): result += wm[i][target[i]]
RECURSIVE ScoreLoop(_, _, _, _, _)
ScoreLoop(h, wm, target, acc, i) ==
    IF i >= Len(target) THEN Ok(h, acc)
    ELSE IF i >= Len(wm) THEN Raise(h, "IndexError")
    ELSE IF target[i + 1] \notin DOMAIN wm[i + 1] THEN Raise(h, "KeyError")
    ELSE ScoreLoop(h, wm, target, RMul(acc, wm[i + 1][target[i + 1]]), i + 1)

relative_individual_information(h, target, self, background) ==
    LET wm == weigh_matrix(h, self, background)
    IN  IF ~wm.ok THEN wm ELSE ScoreLoop(wm.heap, wm.ret, target, Int2Rat(1), 0)

\* ------------------------------------------------------------------ inputs
Strings(maxlen) == UNION {[1..k -> Nucleotides] : k \in 0..maxlen}

SequenceLists == UNION {[1..k -> Strings(MaxLen)] : k \in 1..MaxSeqs}

Starts == 0..MaxStart

\* -1 is the default of the parameter end
Ends == -1..(MaxLen + 1)

ListSamples ==
    {ListSample(q, s, e) : q \in SequenceLists, s \in Starts, e \in Ends}

Probabilities == {Rat(1, 2), Rat(1, 1)}

\* the entries of a model position: up to MaxPairs (symbol, probability)
\* pairs, no symbol twice
Entries ==
    {e \in UNION {[1..k -> Nucleotides \X Probabilities] : k \in 0..MaxPairs} :
        \A i, j \in DOMAIN e : i # j => e[i][1] # e[j][1]}

\* a model of n positions, linked as to_hmm links them
Hmms ==
    UNION {{[i \in 0..(n - 1) |->
               [entry |-> f[i], next |-> IF i # n - 1 THEN i + 1 ELSE -1]] :
            f \in [0..(n - 1) -> Entries]} : n \in 0..MaxLen}

HMMSamples ==
    {HMMSample(m, z, s, e) :
        m \in Hmms, z \in 1..MaxSeqs, s \in Starts, e \in Ends}

Targets == Strings(MaxLen)

Backgrounds == {DEFAULT_BACKGROUND, Skewed}

\* ------------------------------------------------------------------- state
NoSample == Object("none", <<>>, EmptyHmm, 0, 0, 0)

NoTable == [ids |-> <<>>, value |-> <<>>, of |-> NoSample]

NoResult ==
    [op |-> "", target |-> <<>>, background |-> Uniform, ok |-> TRUE,
     err |-> "", ret |-> <<>>, value |-> <<>>]

\* the outcome r of operation op, as the caller sees it on return
Returned(op, target, background, r) ==
    [op |-> op, target |-> target, background |-> background, ok |-> r.ok,
     err |-> r.err, ret |-> r.ret,
     value |-> IF op = "nucleotide_counts" /\ r.ok
               THEN TableValue(r.heap, r.ret) ELSE <<>>]

\* the objects still referenced once the caller keeps only `table`
Live(h, table) ==
    [id \in {table[i] : i \in DOMAIN table} |-> h[id]]

Init ==
    /\ sample \in ListSamples \cup HMMSamples
    /\ origin = NoSample
    /\ DEFAULT_BACKGROUND = Uniform
    /\ heap = EmptyHeap
    /\ held = NoTable
    /\ pc = "idle"
    /\ result = NoResult

Call(op, target, background, r) ==
    /\ pc = "idle"
    /\ heap' = r.heap
    /\ result' = Returned(op, target, background, r)
    /\ pc' = "returned"
    /\ UNCHANGED <<sample, origin, DEFAULT_BACKGROUND, held>>

CallNucleotideCounts ==
    Call("nucleotide_counts", <<>>, Uniform, nucleotide_counts(heap, sample))

CallToHmm ==
    /\ sample.kind = "list"
    /\ Call("to_hmm", <<>>, Uniform, to_hmm(heap, sample))

CallToHmmSample ==
    /\ sample.kind = "list"
    /\ Call("to_hmm_sample", <<>>, Uniform, to_hmm_sample(heap, sample))

CallWeighMatrix ==
    \E background \in Backgrounds :
        Call("weigh_matrix", <<>>, background,
             weigh_matrix(heap, sample, background))

CallRelativeIndividualInformation ==
    \E target \in Targets, background \in Backgrounds :
        Call("relative_individual_information", target, background,
             relative_individual_information(heap, target, sample, background))

\* the caller keeps the table nucleotide_counts() returned
Keep ==
    /\ pc = "returned"
    /\ result.op = "nucleotide_counts"
    /\ result.ok
    /\ held' = [ids |-> result.ret, value |-> result.value, of |-> sample]
    /\ heap' = Live(heap, result.ret)
    /\ result' = NoResult
    /\ pc' = "idle"
    /\ UNCHANGED <<sample, origin, DEFAULT_BACKGROUND>>

\* the caller lets go of what the call returned
Drop ==
    /\ pc = "returned"
    /\ heap' = Live(heap, held.ids)
    /\ result' = NoResult
    /\ pc' = "idle"
    /\ UNCHANGED <<sample, origin, DEFAULT_BACKGROUND, held>>

\* the caller goes on with the HMMSample to_hmm_sample() returned, and with
\* nothing else
Adopt ==
    /\ pc = "returned"
    /\ result.op = "to_hmm_sample"
    /\ result.ok
    /\ sample' = result.ret
    /\ origin' = sample
    /\ held' = NoTable
    /\ heap' = EmptyHeap
    /\ result' = NoResult
    /\ pc' = "idle"
    /\ UNCHANGED DEFAULT_BACKGROUND

Next ==
    \/ CallNucleotideCounts
    \/ CallToHmm
    \/ CallToHmmSample
    \/ CallWeighMatrix
    \/ CallRelativeIndividualInformation
    \/ Drop
    \/ Adopt

\* a caller that never holds on to a table
Spec == Init /\ [][Next]_vars

NextHold ==
    \/ Next
    \/ Keep

\* a caller that may hold on to the table of an earlier call
SpecHold == Init /\ [][NextHold]_vars

\* ---------------------------------------------------------- claim helpers
Returns(op) == pc = "returned" /\ result.op = op

SameLength(sequences) ==
    \A j, k \in DOMAIN sequences : Len(sequences[j]) = Len(sequences[k])

\* equal-length sequences and a window 0 <= start <= end <= sequence length
ValidListSample(self) ==
    /\ self.kind = "list"
    /\ SameLength(self._sequences)
    /\ 0 <= self._start
    /\ self._start <= self._end
    /\ self._end <= Len(self._sequences[1])

\* a window [start, end) inside the model
ValidHMMSample(self) ==
    /\ self.kind = "hmm"
    /\ 0 <= self._start
    /\ self._start <= self._end
    /\ self._end <= DictLen(self._hmm)

ValidSample(self) == ValidListSample(self) \/ ValidHMMSample(self)

SumRow(row) == RAdd(RAdd(RAdd(row["A"], row["G"]), row["T"]), row["C"])

\* how many sequences of a valid ListSample show n at window position i
Occurrences(self, i, n) ==
    Cardinality({k \in DOMAIN self._sequences :
                    self._sequences[k][self._start + i + 1] = n})

\* the product of wm[i][target[i]] over the positions 1..n
RECURSIVE ProductOver(_, _, _)
ProductOver(wm, target, n) ==
    IF n = 0 THEN Int2Rat(1)
    ELSE RMul(ProductOver(wm, target, n - 1), wm[n][target[n]])

\* ---------------------------------------------------------------------- C1
\* C1: for a ListSample of equal-length sequences with a window
\* 0 <= start <= end <= length, nucleotide_counts() returns a table of
\* seq_len() positions, and at every position the counts of A, G, T and C
\* sum to sample_size().
C1_CountsSumToSampleSize ==
    (Returns("nucleotide_counts") /\ ValidListSample(sample)) =>
        /\ result.ok
        /\ Len(result.ret) = seq_len(sample)
        /\ \A i \in DOMAIN result.value :
              /\ DOMAIN result.value[i] = Nucleotides
              /\ SumRow(result.value[i]) = Int2Rat(sample_size(sample))

C1_Witness ==
    /\ Returns("nucleotide_counts")
    /\ ValidListSample(sample)
    /\ sample_size(sample) = 2
    /\ seq_len(sample) = 2
    /\ sample._sequences[1] # sample._sequences[2]

\* ---------------------------------------------------------------------- C2
\* C2: the HMMSample made of S.to_hmm() and S.sample_size(), for a valid
\* ListSample S (windowed or not), has the sample_size() and seq_len() of S,
\* and its nucleotide_counts() equals that of S at every position and symbol.
C2_RoundTrip ==
    ValidListSample(origin) =>
        /\ sample.kind = "hmm"
        /\ sample_size(sample) = sample_size(origin)
        /\ seq_len(sample) = seq_len(origin)
        /\ Returns("nucleotide_counts") =>
              /\ result.ok
              /\ Len(result.value) = seq_len(origin)
              /\ \A i \in DOMAIN result.value : \A n \in Nucleotides :
                    result.value[i][n] = Int2Rat(Occurrences(origin, i - 1, n))

C2_Witness ==
    /\ ValidListSample(origin)
    /\ origin._start > 0
    /\ sample_size(origin) = 2
    /\ origin._sequences[1] # origin._sequences[2]
    /\ Returns("nucleotide_counts")
    /\ Len(result.value) = 1
    /\ result.value[1]["A"] = Int2Rat(1)

\* ---------------------------------------------------------------------- C3
\* C3: for a target at least seq_len() long (also a strictly longer one),
\* relative_individual_information returns the sum of weigh_matrix[i][target[i]]
\* over exactly the positions 0..seq_len()-1.
C3_ScoresWindowOfLongerTarget ==
    (/\ Returns("relative_individual_information")
     /\ ValidSample(sample)
     /\ Len(result.target) >= seq_len(sample)) =>
        /\ result.ok
        /\ result.ret =
              ProductOver(weigh_matrix(EmptyHeap, sample, result.background).ret,
                          result.target, seq_len(sample))

\* ---------------------------------------------------------------------- C4
\* C4: a target shorter than seq_len() ends relative_individual_information
\* in an error, never in a number.
C4_ShortTargetRaises ==
    (/\ Returns("relative_individual_information")
     /\ Len(result.target) < seq_len(sample)) =>
        ~result.ok

\* ---------------------------------------------------------------------- C5
\* C5: a ListSample whose sequences are not all of one length makes
\* nucleotide_counts() and the scoring that uses it end in an error.
C5_UnequalLengthsRaise ==
    (/\ pc = "returned"
     /\ result.op \in {"nucleotide_counts", "weigh_matrix",
                       "relative_individual_information"}
     /\ sample.kind = "list"
     /\ ~SameLength(sample._sequences)) =>
        ~result.ok

\* ---------------------------------------------------------------------- C6
\* C6 as claimed: the entry of to_hmm() at position i holds a pair
\* (symbol, count / sample_size) for exactly the symbols of nonzero count.
C6_OnlyObservedSymbols ==
    (Returns("to_hmm") /\ ValidListSample(sample)) =>
        /\ result.ok
        /\ \A i \in DOMAIN result.ret :
              LET entry == result.ret[i].entry
              IN  /\ {entry[k][1] : k \in DOMAIN entry} =
                        {n \in Nucleotides : Occurrences(sample, i, n) # 0}
                  /\ \A k \in DOMAIN entry :
                        entry[k][2] =
                           Rat(Occurrences(sample, i, entry[k][1]),
                               sample_size(sample))

\* C6 as amended: the entry of to_hmm() at position i holds one pair
\* (symbol, count / sample_size) for each of A, G, T, C in this order; a
\* symbol of count 0 has a pair of probability 0.
C6_EverySymbolHasAPair ==
    (Returns("to_hmm") /\ ValidListSample(sample)) =>
        /\ result.ok
        /\ DOMAIN result.ret = 0..(seq_len(sample) - 1)
        /\ \A i \in DOMAIN result.ret :
              LET entry == result.ret[i].entry
              IN  /\ Len(entry) = Len(NucleotideOrder)
                  /\ \A k \in DOMAIN entry :
                        /\ entry[k][1] = NucleotideOrder[k]
                        /\ entry[k][2] =
                              Rat(Occurrences(sample, i, entry[k][1]),
                                  sample_size(sample))

C6_Witness ==
    /\ Returns("to_hmm")
    /\ ValidListSample(sample)
    /\ result.ok
    /\ sample_size(sample) = 2
    /\ \E i \in DOMAIN result.ret : \E k, j \in DOMAIN result.ret[i].entry :
          /\ result.ret[i].entry[k][2] = RZero
          /\ result.ret[i].entry[j][2] = Rat(1, 2)

\* ---------------------------------------------------------------------- C7
\* C7: for an HMMSample whose window lies inside the model,
\* nucleotide_counts() returns seq_len() positions; position i holds
\* probability x sample_size for every pair at model position start + i, 0
\* for the symbols of A, G, T, C without a pair, and all four keys.
C7_ExpectedCounts ==
    (Returns("nucleotide_counts") /\ ValidHMMSample(sample)) =>
        /\ result.ok
        /\ Len(result.value) = seq_len(sample)
        /\ \A i \in DOMAIN result.value :
              /\ DOMAIN result.value[i] = Nucleotides
              /\ \A n \in Nucleotides :
                    LET entry == sample._hmm[sample._start + i - 1].entry
                        pairs == {k \in DOMAIN entry : entry[k][1] = n}
                    IN  IF pairs = {} THEN result.value[i][n] = RZero
                        ELSE \A k \in pairs :
                                result.value[i][n] =
                                   RMul(entry[k][2],
                                        Int2Rat(sample._sample_size))

C7_Witness ==
    /\ Returns("nucleotide_counts")
    /\ ValidHMMSample(sample)
    /\ origin = NoSample
    /\ sample._start = 1
    /\ seq_len(sample) = 1
    /\ sample._sample_size = 2
    /\ sample._hmm[0].entry # sample._hmm[1].entry
    /\ Len(sample._hmm[1].entry) = 1
    /\ sample._hmm[1].entry[1][2] = Rat(1, 2)

\* ---------------------------------------------------------------------- C8
\* C8: a window with start > end, or with end beyond the sequences
\* (ListSample) or the model (HMMSample), is an error: no operation returns
\* a table or a number for it.
BadWindow(self) ==
    \/ self._start > self._end
    \/ /\ self.kind = "list"
       /\ \E k \in DOMAIN self._sequences : self._end > Len(self._sequences[k])
    \/ /\ self.kind = "hmm"
       /\ self._end > DictLen(self._hmm)

C8_BadWindowRaises ==
    (/\ pc = "returned"
     /\ result.op \in {"nucleotide_counts", "weigh_matrix",
                       "relative_individual_information"}
     /\ BadWindow(sample)) =>
        ~result.ok

\* ---------------------------------------------------------------------- C9
\* what the operation of result yields when it is the first call ever made
FirstCall(r) ==
    IF r.op = "nucleotide_counts" THEN nucleotide_counts(EmptyHeap, sample)
    ELSE IF r.op = "to_hmm" THEN to_hmm(EmptyHeap, sample)
    ELSE IF r.op = "to_hmm_sample" THEN to_hmm_sample(EmptyHeap, sample)
    ELSE IF r.op = "weigh_matrix"
         THEN weigh_matrix(EmptyHeap, sample, r.background)
    ELSE relative_individual_information(EmptyHeap, r.target, sample,
                                         r.background)

\* C9: a call leaves the Sample, the background and the tables returned
\* earlier as they were; nucleotide_counts() returns a table of rows that are
\* new objects, none shared with the table the caller still holds; and a
\* call returns what the same call returned before.
C9_CallsArePure ==
    [][(pc = "idle" /\ pc' = "returned") =>
          /\ sample' = sample
          /\ DEFAULT_BACKGROUND' = DEFAULT_BACKGROUND
          /\ \A i \in DOMAIN held.ids : held.ids[i] \in DOMAIN heap'
          /\ TableValue(heap', held.ids) = held.value
          /\ (result'.op = "nucleotide_counts" /\ result'.ok) =>
                /\ \A i \in DOMAIN result'.ret : \A j \in DOMAIN held.ids :
                      result'.ret[i] # held.ids[j]
                /\ \A i, j \in DOMAIN result'.ret :
                      i # j => result'.ret[i] # result'.ret[j]
                /\ held.of = sample => result'.value = held.value
          /\ LET first == FirstCall(result')
             IN  /\ result'.ok = first.ok
                 /\ result'.err = first.err
                 /\ IF result'.op = "nucleotide_counts" /\ first.ok
                    THEN result'.value = TableValue(first.heap, first.ret)
                    ELSE result'.ret = first.ret
       ]_vars

C9_Witness ==
    /\ Returns("nucleotide_counts")
    /\ result.ok
    /\ held.of = sample
    /\ Len(held.ids) = 2
    /\ Len(result.ret) = 2
    /\ sample_size(sample) = 2

\* --------------------------------------------------------------------- C10
\* C10: for a target of length seq_len(), replacing the symbol a at position
\* k by b changes the score by weigh_matrix[k][b] - weigh_matrix[k][a]
\* (scores being logarithms: the quotient of the two arguments is the
\* quotient of the two matrix entries).
C10_OneSymbolChange ==
    (/\ Returns("relative_individual_information")
     /\ result.ok
     /\ Len(result.target) = seq_len(sample)) =>
        LET wm == weigh_matrix(EmptyHeap, sample, result.background).ret
        IN  \A k \in DOMAIN result.target : \A b \in Nucleotides :
               LET a == result.target[k]
                   other == relative_individual_information(
                                EmptyHeap, [result.target EXCEPT ![k] = b],
                                sample, result.background)
               IN  /\ other.ok
                   /\ RDiv(other.ret, result.ret) = RDiv(wm[k][b], wm[k][a])

C10_Witness ==
    /\ Returns("relative_individual_information")
    /\ result.ok
    /\ Len(result.target) = 2
    /\ seq_len(sample) = 2
    /\ sample_size(sample) = 2
    /\ result.background = Skewed
    /\ result.target[1] # result.target[2]
====
